---- MODULE Spec2Model ----
(***************************************************************************)
(* Model of klipper_log_analyzer.py: the KlipperLogAnalyzer line parsers   *)
(* (parse_log and its four _parse_* helpers), generate_performance_report  *)
(* and generate_health_report.                                             *)
(*                                                                         *)
(* Text is modelled character by character: a Python str is a sequence of  *)
(* one-character strings, so that the regular expressions of the source    *)
(* are computed on the characters of a line and not assumed.  A float is   *)
(* modelled as an exact decimal [m, e] standing for m / 10^e (the binary   *)
(* rounding of IEEE doubles is not modelled).                              *)
(***************************************************************************)
EXTENDS Integers, Sequences, FiniteSets, TLC

----------------------------------------------------------------------------
(* Bounds of the model.                                                    *)

\* Longest log (in lines) of the log families with a rich line catalogue.
MaxLines == 3
\* Longest log (in lines) of the error-flood family ("flood.log").
MaxFloodLines == 11

----------------------------------------------------------------------------
(* Characters and the character classes of Python's re module.             *)

LowerCase == <<"a","b","c","d","e","f","g","h","i","j","k","l","m","n","o","p","q","r","s","t","u","v","w","x","y","z">>
UpperCase == <<"A","B","C","D","E","F","G","H","I","J","K","L","M","N","O","P","Q","R","S","T","U","V","W","X","Y","Z">>
Digits == <<"0","1","2","3","4","5","6","7","8","9">>

Range(f) == {f[i] : i \in DOMAIN f}

\* \d
DigitChar == Range(Digits)
\* \w (ASCII letters, digits, underscore)
WordChar == Range(LowerCase) \cup Range(UpperCase) \cup DigitChar \cup {"_"}
\* [0-9.-]
NumChar == DigitChar \cup {".", "-"}
\* the characters str.strip() removes
WhiteSpace == {" ", "\t", "\n", "\r"}

\* str.lower() on one character, and on a str
LowerTable == [c \in Range(UpperCase) |-> LowerCase[CHOOSE i \in DOMAIN UpperCase : UpperCase[i] = c]]
LowerChar(c) == IF c \in DOMAIN LowerTable THEN LowerTable[c] ELSE c
Lower(s) == [i \in 1..Len(s) |-> LowerChar(s[i])]

\* value of one decimal digit
DigitTable == [c \in DigitChar |-> (CHOOSE i \in DOMAIN Digits : Digits[i] = c) - 1]
DigitVal(c) == DigitTable[c]

\* s[i:] and s[i:j] with 1-based i and exclusive j
From(s, i) == SubSeq(s, i, Len(s))
Slice(s, i, j) == SubSeq(s, i, j - 1)

\* str.strip(): leading and trailing white space removed
RECURSIVE LStrip(_)
LStrip(s) == IF s # <<>> /\ Head(s) \in WhiteSpace THEN LStrip(Tail(s)) ELSE s
RECURSIVE RStrip(_)
RStrip(s) ==
    IF s # <<>> /\ s[Len(s)] \in WhiteSpace THEN RStrip(SubSeq(s, 1, Len(s) - 1)) ELSE s
Strip(s) == RStrip(LStrip(s))

\* the literal lit occurs in s at position i
HasLit(s, i, lit) ==
    /\ i + Len(lit) - 1 <= Len(s)
    /\ \A k \in 1..Len(lit) : s[i + k - 1] = lit[k]

\* end (exclusive) of the longest run of characters of class C starting at i:
\* a greedy C* ; the run is empty when the result is i
RECURSIVE RunEnd(_, _, _)
RunEnd(s, i, C) == IF i > Len(s) \/ s[i] \notin C THEN i ELSE RunEnd(s, i + 1, C)

\* position of the first c at or after i, Len(s) + 1 when there is none
RECURSIVE IndexOf(_, _, _)
IndexOf(s, i, c) == IF i > Len(s) \/ s[i] = c THEN i ELSE IndexOf(s, i + 1, c)

\* int() of a string of digits
RECURSIVE DigitsToInt(_)
DigitsToInt(s) ==
    IF s = <<>> THEN 0 ELSE 10 * DigitsToInt(SubSeq(s, 1, Len(s) - 1)) + DigitVal(s[Len(s)])

----------------------------------------------------------------------------
(* Floats as exact decimals, and float().                                  *)

RECURSIVE Pow10(_)
Pow10(n) == IF n = 0 THEN 1 ELSE 10 * Pow10(n - 1)

\* canonical form: no trailing zero in the fraction, so equal numbers are equal records
RECURSIVE Norm(_)
Norm(d) == IF d.e > 0 /\ d.m % 10 = 0 THEN Norm([m |-> d.m \div 10, e |-> d.e - 1]) ELSE d

Dec(m, e) == Norm([m |-> m, e |-> e])
IntDec(n) == [m |-> n, e |-> 0]
MaxOf(a, b) == IF a >= b THEN a ELSE b
\* the mantissa of d at e fraction digits (e >= d.e)
Scaled(d, e) == d.m * Pow10(e - d.e)
DecLess(a, b) == Scaled(a, MaxOf(a.e, b.e)) < Scaled(b, MaxOf(a.e, b.e))
DecAdd(a, b) == Dec(Scaled(a, MaxOf(a.e, b.e)) + Scaled(b, MaxOf(a.e, b.e)), MaxOf(a.e, b.e))
DecSub(a, b) == Dec(Scaled(a, MaxOf(a.e, b.e)) - Scaled(b, MaxOf(a.e, b.e)), MaxOf(a.e, b.e))
DecTimes(a, n) == Dec(a.m * n, a.e)

\* float(s) succeeds: an optional sign, then digits with at most one point and at
\* least one digit.  (float() also accepts a leading "+", exponents, "_" between
\* digits and the words inf/infinity/nan; none of them is written with the
\* characters a capture of [0-9.-]+ holds, and no line of the catalogues below
\* holds one as a bare-word value.)
FloatOk(s) ==
    LET body == IF s # <<>> /\ s[1] = "-" THEN Tail(s) ELSE s
    IN  /\ \A i \in 1..Len(body) : body[i] \in DigitChar \cup {"."}
        /\ Cardinality({i \in 1..Len(body) : body[i] = "."}) <= 1
        /\ \E i \in 1..Len(body) : body[i] \in DigitChar

\* float(s) for a string FloatOk accepts
Float(s) ==
    LET neg == s[1] = "-"
        body == IF neg THEN Tail(s) ELSE s
        dot == IndexOf(body, 1, ".")
        digs == Slice(body, 1, dot) \o From(body, dot + 1)
        frac == IF dot > Len(body) THEN 0 ELSE Len(body) - dot
        mant == DigitsToInt(digs)
    IN  Dec(IF neg THEN 0 - mant ELSE mant, frac)

----------------------------------------------------------------------------
(* The literals of the source: pattern fragments, dictionary keys.         *)

P_LoadedMCU == <<"L","o","a","d","e","d"," ","M","C","U"," ","'">>
P_QuoteSp == <<"'"," ">>
P_Commands == <<" ","c","o","m","m","a","n","d","s"," ","(">>
P_MCU == <<"M","C","U"," ","'">>
P_Config == <<"'"," ","c","o","n","f","i","g",":"," ">>
P_ConfiguredMCU == <<"C","o","n","f","i","g","u","r","e","d"," ","M","C","U"," ","'">>
P_QuoteParen == <<"'"," ","(">>
P_Moves == <<" ","m","o","v","e","s",")">>
P_Stats == <<"S","t","a","t","s"," ">>
P_ColonSp == <<":"," ">>
P_temp == <<":"," ","t","e","m","p","=">>
P_target == <<":"," ","t","a","r","g","e","t","=">>
P_pwm == <<"p","w","m","=">>
P_active == <<"a","c","t","i","v","e">>
P_inactive == <<"i","n","a","c","t","i","v","e">>

K_timestamp == <<"t","i","m","e","s","t","a","m","p">>
K_line_number == <<"l","i","n","e","_","n","u","m","b","e","r">>
K_freq == <<"f","r","e","q">>
K_sysload == <<"s","y","s","l","o","a","d">>
K_cputime == <<"c","p","u","t","i","m","e">>
K_memavail == <<"m","e","m","a","v","a","i","l">>
K_rx_error == <<"r","x","_","e","r","r","o","r">>
K_tx_error == <<"t","x","_","e","r","r","o","r">>
X_temp == <<"_","t","e","m","p">>
X_target == <<"_","t","a","r","g","e","t">>
X_pwm == <<"_","p","w","m">>

error_patterns ==
    << <<"e","r","r","o","r">>,
       <<"w","a","r","n","i","n","g">>,
       <<"e","x","c","e","p","t","i","o","n">>,
       <<"f","a","i","l","e","d">>,
       <<"E","R","R","O","R">>,
       <<"W","A","R","N","I","N","G">>,
       <<"E","X","C","E","P","T","I","O","N">>,
       <<"F","A","I","L","E","D">> >>

----------------------------------------------------------------------------
(* Python values.  A dict is a function on the set of its keys; None / an  *)
(* absent optional entry is the empty sequence and a present one a         *)
(* one-element sequence.                                                   *)

EmptyDict == [k \in {} |-> k]
Put(d, k, v) == [x \in (DOMAIN d) \cup {k} |-> IF x = k THEN v ELSE d[x]]

\* a value of a stats dict: a float, an int (the line number) or a str
FloatVal(d) == [tag |-> "float", num |-> d, str |-> <<>>]
IntVal(n) == [tag |-> "int", num |-> IntDec(n), str |-> <<>>]
StrVal(s) == [tag |-> "str", num |-> IntDec(0), str |-> s]

----------------------------------------------------------------------------
(* _parse_mcu_info                                                         *)

\* re.match(r"Loaded MCU '(\w+)' (\d+) commands \((.*?)\)", line): the groups, or <<>>
MatchMcuLoad(line) ==
    LET n1 == Len(P_LoadedMCU) + 1
        n2 == RunEnd(line, n1, WordChar)
        c1 == n2 + Len(P_QuoteSp)
        c2 == RunEnd(line, c1, DigitChar)
        v1 == c2 + Len(P_Commands)
        \* (.*?)\) : the lazy group ends at the first ")"
        v2 == IndexOf(line, v1, ")")
    IN  IF /\ HasLit(line, 1, P_LoadedMCU)
           /\ n2 > n1
           /\ HasLit(line, n2, P_QuoteSp)
           /\ c2 > c1
           /\ HasLit(line, c2, P_Commands)
           /\ v2 <= Len(line)
        THEN << [mcu_name |-> Slice(line, n1, n2),
                 commands |-> Slice(line, c1, c2),
                 version_info |-> Slice(line, v1, v2)] >>
        ELSE <<>>

\* re.match(r"MCU '(\w+)' config: (.*)", line)
MatchMcuConfig(line) ==
    LET n1 == Len(P_MCU) + 1
        n2 == RunEnd(line, n1, WordChar)
        d1 == n2 + Len(P_Config)
    IN  IF HasLit(line, 1, P_MCU) /\ n2 > n1 /\ HasLit(line, n2, P_Config)
        THEN << [mcu_name |-> Slice(line, n1, n2), config_data |-> From(line, d1)] >>
        ELSE <<>>

\* re.match(r"Configured MCU '(\w+)' \((\d+) moves\)", line)
MatchMcuConfigured(line) ==
    LET n1 == Len(P_ConfiguredMCU) + 1
        n2 == RunEnd(line, n1, WordChar)
        m1 == n2 + Len(P_QuoteParen)
        m2 == RunEnd(line, m1, DigitChar)
    IN  IF /\ HasLit(line, 1, P_ConfiguredMCU)
           /\ n2 > n1
           /\ HasLit(line, n2, P_QuoteParen)
           /\ m2 > m1
           /\ HasLit(line, m2, P_Moves)
        THEN << [mcu_name |-> Slice(line, n1, n2), moves |-> Slice(line, m1, m2)] >>
        ELSE <<>>

\* McuLoad updating a descriptor in place: a re-load keeps the config and the
\* moves the MCU already had
McuLoad_updating(self, line, line_number) ==
    LET match == MatchMcuLoad(line)
        known == match # <<>> /\ match[1].mcu_name \in DOMAIN self.mcu_configs
    IN  IF match # <<>>
        THEN [self EXCEPT
                !.mcu_configs = Put(@, match[1].mcu_name,
                                    [commands |-> DigitsToInt(match[1].commands),
                                     version_info |-> match[1].version_info,
                                     line_number |-> line_number,
                                     config |-> IF known THEN @[match[1].mcu_name].config
                                                ELSE <<>>,
                                     moves |-> IF known THEN @[match[1].mcu_name].moves
                                               ELSE <<>>]),
                !.timeline = Append(@, [line |-> line_number,
                                        type |-> "mcu_load",
                                        mcu |-> match[1].mcu_name,
                                        message |-> line])]
        ELSE self

\* self.mcu_configs[mcu_name] = {...}; self.timeline.append({...})
McuLoad(self, line, line_number) ==
    LET match == MatchMcuLoad(line)
    IN  IF match # <<>>
        THEN [self EXCEPT
                !.mcu_configs = Put(@, match[1].mcu_name,
                                    [commands |-> DigitsToInt(match[1].commands),
                                     version_info |-> match[1].version_info,
                                     line_number |-> line_number,
                                     config |-> <<>>,
                                     moves |-> <<>>]),
                !.timeline = Append(@, [line |-> line_number,
                                        type |-> "mcu_load",
                                        mcu |-> match[1].mcu_name,
                                        message |-> line])]
        ELSE self

\* McuConfig without its membership test: the config line makes the descriptor
McuConfig_creating(self, line) ==
    LET match == MatchMcuConfig(line)
    IN  IF match # <<>>
        THEN [self EXCEPT
                !.mcu_configs =
                    IF match[1].mcu_name \in DOMAIN @
                    THEN [@ EXCEPT ![match[1].mcu_name].config = << match[1].config_data >>]
                    ELSE Put(@, match[1].mcu_name,
                             [commands |-> 0, version_info |-> <<>>, line_number |-> 0,
                              config |-> << match[1].config_data >>, moves |-> <<>>])]
        ELSE self

\* if mcu_name in self.mcu_configs: self.mcu_configs[mcu_name]['config'] = config_data
McuConfig(self, line) ==
    LET match == MatchMcuConfig(line)
    IN  IF match # <<>> /\ match[1].mcu_name \in DOMAIN self.mcu_configs
        THEN [self EXCEPT !.mcu_configs[match[1].mcu_name].config = << match[1].config_data >>]
        ELSE self

\* if mcu_name in self.mcu_configs: self.mcu_configs[mcu_name]['moves'] = int(moves)
McuConfigured(self, line) ==
    LET match == MatchMcuConfigured(line)
    IN  IF match # <<>> /\ match[1].mcu_name \in DOMAIN self.mcu_configs
        THEN [self EXCEPT !.mcu_configs[match[1].mcu_name].moves = << DigitsToInt(match[1].moves) >>]
        ELSE self

parse_mcu_info(self, line, line_number) ==
    McuConfigured(McuConfig(McuLoad(self, line, line_number), line), line)

----------------------------------------------------------------------------
(* _parse_stats_line                                                       *)

\* re.match(r"Stats (\d+\.?\d*): (.*)", line)
MatchStats(line) ==
    LET t1 == Len(P_Stats) + 1
        t2 == RunEnd(line, t1, DigitChar)
        t3 == IF t2 <= Len(line) /\ line[t2] = "." THEN t2 + 1 ELSE t2
        t4 == RunEnd(line, t3, DigitChar)
    IN  IF HasLit(line, 1, P_Stats) /\ t2 > t1 /\ HasLit(line, t4, P_ColonSp)
        THEN << [timestamp |-> Slice(line, t1, t4),
                 stats_content |-> From(line, t4 + Len(P_ColonSp))] >>
        ELSE <<>>

\* (\w+)=([0-9.-]+|active|inactive|\w+) matched at position s of c: the first
\* alternative of the value that matches is taken
MatchKvAt(c, s) ==
    LET k2 == RunEnd(c, s, WordChar)
        v1 == k2 + 1
        n2 == RunEnd(c, v1, NumChar)
        v2 == IF n2 > v1 THEN n2
              ELSE IF HasLit(c, v1, P_active) THEN v1 + Len(P_active)
              ELSE IF HasLit(c, v1, P_inactive) THEN v1 + Len(P_inactive)
              ELSE RunEnd(c, v1, WordChar)
    IN  IF k2 > s /\ k2 <= Len(c) /\ c[k2] = "=" /\ v2 > v1
        THEN << [key |-> Slice(c, s, k2), value |-> Slice(c, v1, v2), end |-> v2] >>
        ELSE <<>>

\* (\w+): temp=([0-9.-]+) and (\w+): target=([0-9.-]+) matched at position s
\* (sep is ": temp=" or ": target=")
MatchSensorAt(c, s, sep) ==
    LET k2 == RunEnd(c, s, WordChar)
        v1 == k2 + Len(sep)
        v2 == RunEnd(c, v1, NumChar)
    IN  IF k2 > s /\ HasLit(c, k2, sep) /\ v2 > v1
        THEN << [key |-> Slice(c, s, k2), value |-> Slice(c, v1, v2), end |-> v2] >>
        ELSE <<>>

\* the lazy .*? of the pwm pattern: the first position at or after i where
\* pwm=([0-9.-]+) matches, 0 when there is none
RECURSIVE LazyPwm(_, _)
LazyPwm(c, i) ==
    IF i > Len(c) THEN 0
    ELSE IF HasLit(c, i, P_pwm) /\ RunEnd(c, i + Len(P_pwm), NumChar) > i + Len(P_pwm)
         THEN i
         ELSE LazyPwm(c, i + 1)

\* (\w+): .*?pwm=([0-9.-]+) matched at position s
MatchPwmAt(c, s) ==
    LET k2 == RunEnd(c, s, WordChar)
        g == LazyPwm(c, k2 + Len(P_ColonSp))
        v1 == g + Len(P_pwm)
        v2 == RunEnd(c, v1, NumChar)
    IN  IF k2 > s /\ HasLit(c, k2, P_ColonSp) /\ g # 0
        THEN << [key |-> Slice(c, s, k2), value |-> Slice(c, v1, v2), end |-> v2] >>
        ELSE <<>>

\* re.findall: the non-overlapping matches from left to right, each search
\* resuming where the previous match ended
RECURSIVE FindAllKv(_, _)
FindAllKv(c, p) ==
    IF p > Len(c) THEN <<>>
    ELSE LET m == MatchKvAt(c, p)
         IN  IF m # <<>> THEN m \o FindAllKv(c, m[1].end) ELSE FindAllKv(c, p + 1)

RECURSIVE FindAllSensor(_, _, _)
FindAllSensor(c, p, sep) ==
    IF p > Len(c) THEN <<>>
    ELSE LET m == MatchSensorAt(c, p, sep)
         IN  IF m # <<>> THEN m \o FindAllSensor(c, m[1].end, sep)
             ELSE FindAllSensor(c, p + 1, sep)

RECURSIVE FindAllPwm(_, _)
FindAllPwm(c, p) ==
    IF p > Len(c) THEN <<>>
    ELSE LET m == MatchPwmAt(c, p)
         IN  IF m # <<>> THEN m \o FindAllPwm(c, m[1].end) ELSE FindAllPwm(c, p + 1)

\* the body of the key=value loop: try float(value), keep the text on ValueError
KvValue(value) ==
    IF value \notin {P_active, P_inactive}
    THEN IF FloatOk(value) THEN FloatVal(Float(value)) ELSE StrVal(value)
    ELSE StrVal(value)

\* for key, value in re.findall(kv_pattern, stats_content): stats_dict[key] = ...
RECURSIVE StoreKv(_, _)
StoreKv(d, ms) ==
    IF ms = <<>> THEN d ELSE StoreKv(Put(d, Head(ms).key, KvValue(Head(ms).value)), Tail(ms))

\* for sensor, v in re.findall(...): stats_dict[f'{sensor}<suffix>'] = float(v)
RECURSIVE StoreSensor(_, _, _)
StoreSensor(d, ms, suffix) ==
    IF ms = <<>> THEN d
    ELSE StoreSensor(Put(d, Head(ms).key \o suffix, FloatVal(Float(Head(ms).value))),
                     Tail(ms), suffix)

\* some float(v) of a sensor loop raises ValueError (these loops have no try)
SensorRaises(ms) == \E i \in 1..Len(ms) : ~FloatOk(ms[i].value)

\* the keys tracked in self.performance_metrics
perf_keys == << K_freq, K_sysload, K_cputime, K_memavail >>

\* for key in [...]: if key in stats_dict: self.performance_metrics[key].append(...)
TrackMetrics(pm, d) ==
    [k \in (DOMAIN pm) \cup (Range(perf_keys) \cap DOMAIN d) |->
        IF k \in DOMAIN d
        THEN Append(IF k \in DOMAIN pm THEN pm[k] ELSE <<>>, d[k])
        ELSE pm[k]]

\* the dict built for a matching line, before it is appended
StatsDict(match, line_number) ==
    LET c == match.stats_content
        d0 == Put(Put(EmptyDict, K_timestamp, FloatVal(Float(match.timestamp))),
                  K_line_number, IntVal(line_number))
        d1 == StoreKv(d0, FindAllKv(c, 1))
        d2 == StoreSensor(d1, FindAllSensor(c, 1, P_temp), X_temp)
        d3 == StoreSensor(d2, FindAllSensor(c, 1, P_target), X_target)
    IN  StoreSensor(d3, FindAllPwm(c, 1), X_pwm)

\* a ValueError leaves _parse_stats_line before self.stats_data.append
StatsRaises(line) ==
    LET match == MatchStats(line)
    IN  /\ match # <<>>
        /\ \/ SensorRaises(FindAllSensor(match[1].stats_content, 1, P_temp))
           \/ SensorRaises(FindAllSensor(match[1].stats_content, 1, P_target))
           \/ SensorRaises(FindAllPwm(match[1].stats_content, 1))

\* the effect of a call that returns
parse_stats_line(self, line, line_number) ==
    LET match == MatchStats(line)
    IN  IF match # <<>>
        THEN LET stats_dict == StatsDict(match[1], line_number)
             IN  [self EXCEPT
                    !.stats_data = Append(@, stats_dict),
                    !.performance_metrics = TrackMetrics(@, stats_dict)]
        ELSE self

----------------------------------------------------------------------------
(* _parse_config_section                                                   *)

\* re.match(r'^\[([^\]]+)\]$', line)
MatchConfigSection(line) ==
    LET e == IndexOf(line, 2, "]")
    IN  IF Len(line) >= 3 /\ line[1] = "[" /\ e > 2 /\ e = Len(line)
        THEN << Slice(line, 2, e) >>
        ELSE <<>>

\* parse_config_section keeping the entry a section already has
parse_config_section_keeping(self, line, line_number) ==
    LET match == MatchConfigSection(line)
    IN  IF match # <<>> /\ match[1] \notin DOMAIN self.config_sections
        THEN [self EXCEPT
                !.config_sections = Put(@, match[1],
                                        [line_number |-> line_number, content |-> <<>>])]
        ELSE self

\* self.config_sections[section_name] = {'line_number': line_number, 'content': []}
parse_config_section(self, line, line_number) ==
    LET match == MatchConfigSection(line)
    IN  IF match # <<>>
        THEN [self EXCEPT
                !.config_sections = Put(@, match[1],
                                        [line_number |-> line_number, content |-> <<>>])]
        ELSE self

----------------------------------------------------------------------------
(* _parse_errors_warnings                                                  *)

\* re.search(pattern, line, re.IGNORECASE) for a literal pattern
Search(pattern, line) ==
    LET text == Lower(line)
        word == Lower(pattern)
    IN  \E i \in 1..Len(text) : HasLit(text, i, word)

\* the index of the first pattern of error_patterns found in line, 0 when none
FirstPattern(line) ==
    LET hits == {i \in DOMAIN error_patterns : Search(error_patterns[i], line)}
    IN  IF hits = {} THEN 0 ELSE CHOOSE i \in hits : \A j \in hits : i <= j

parse_errors_warnings(self, line, line_number) ==
    LET p == FirstPattern(line)
    IN  IF p # 0
        THEN [self EXCEPT
                !.errors = Append(@, [line_number |-> line_number,
                                      type |-> Lower(error_patterns[p]),
                                      message |-> line])]
        ELSE self

----------------------------------------------------------------------------
(* The input.  Each log family is a catalogue of raw lines; a log of the   *)
(* family is any sequence of at most LineBound of them.  Raw lines are     *)
(* written without their line terminator, which strip() removes anyway.    *)

\* Loaded MCU 'mcu' 945 commands (v0.11.0)
L_load_mcu == <<"L","o","a","d","e","d"," ","M","C","U"," ","'","m","c","u","'"," ","9","4","5"," ","c","o","m","m","a","n","d","s"," ","(","v","0",".","1","1",".","0",")">>
\* Loaded MCU 'mcu' 7 commands (a (b) c)
L_load_paren == <<"L","o","a","d","e","d"," ","M","C","U"," ","'","m","c","u","'"," ","7"," ","c","o","m","m","a","n","d","s"," ","(","a"," ","(","b",")"," ","c",")">>
\* Loaded MCU 'ebb' 5 commands (v2)
L_load_ebb == <<"L","o","a","d","e","d"," ","M","C","U"," ","'","e","b","b","'"," ","5"," ","c","o","m","m","a","n","d","s"," ","(","v","2",")">>
\* MCU 'mcu' config: ADC_MAX=4095
L_config_mcu == <<"M","C","U"," ","'","m","c","u","'"," ","c","o","n","f","i","g",":"," ","A","D","C","_","M","A","X","=","4","0","9","5">>
\* Configured MCU 'mcu' (1024 moves)
L_moves_mcu == <<"C","o","n","f","i","g","u","r","e","d"," ","M","C","U"," ","'","m","c","u","'"," ","(","1","0","2","4"," ","m","o","v","e","s",")">>
\* Configured MCU 'ebb' (3 moves)
L_moves_ebb == <<"C","o","n","f","i","g","u","r","e","d"," ","M","C","U"," ","'","e","b","b","'"," ","(","3"," ","m","o","v","e","s",")">>
\* Configured MCU 'mcu' (7 moves)
L_moves_more == <<"C","o","n","f","i","g","u","r","e","d"," ","M","C","U"," ","'","m","c","u","'"," ","(","7"," ","m","o","v","e","s",")">>
\* MCU 'mcu' config: BUS=spi
L_config_more == <<"M","C","U"," ","'","m","c","u","'"," ","c","o","n","f","i","g",":"," ","B","U","S","=","s","p","i">>
\* a line of two blanks
L_blank == <<" "," ">>

\* Stats 1.0: sysload=0.5 memavail=250000
L_stats_ok == <<"S","t","a","t","s"," ","1",".","0",":"," ","s","y","s","l","o","a","d","=","0",".","5"," ","m","e","m","a","v","a","i","l","=","2","5","0","0","0","0">>
\* Stats 2.0: sysload=1.5 memavail=50000
L_stats_hot == <<"S","t","a","t","s"," ","2",".","0",":"," ","s","y","s","l","o","a","d","=","1",".","5"," ","m","e","m","a","v","a","i","l","=","5","0","0","0","0">>
\* Stats 1.0: extruder: temp=205.3 target=210.0 pwm=0.45
L_stats_extruder == <<"S","t","a","t","s"," ","1",".","0",":"," ","e","x","t","r","u","d","e","r",":"," ","t","e","m","p","=","2","0","5",".","3"," ","t","a","r","g","e","t","=","2","1","0",".","0"," ","p","w","m","=","0",".","4","5">>
\* Stats 3.5: bed: temp=1.2.3
L_stats_badtemp == <<"S","t","a","t","s"," ","3",".","5",":"," ","b","e","d",":"," ","t","e","m","p","=","1",".","2",".","3">>
\* Stats 0.5: timestamp=9 x=- y=ok z=active
L_stats_text == <<"S","t","a","t","s"," ","0",".","5",":"," ","t","i","m","e","s","t","a","m","p","=","9"," ","x","=","-"," ","y","=","o","k"," ","z","=","a","c","t","i","v","e">>
\* Stats 4.0: a: temp=1 b: temp=2 pwm=0.3
L_stats_two == <<"S","t","a","t","s"," ","4",".","0",":"," ","a",":"," ","t","e","m","p","=","1"," ","b",":"," ","t","e","m","p","=","2"," ","p","w","m","=","0",".","3">>

\* [printer]
L_section_printer == <<"[","p","r","i","n","t","e","r","]">>
\* [extruder]
L_section_extruder == <<"[","e","x","t","r","u","d","e","r","]">>
\* "  [printer] " (white space around the header)
L_section_padded == <<" "," ","[","p","r","i","n","t","e","r","]"," ">>
\* x [printer]
L_section_inline == <<"x"," ","[","p","r","i","n","t","e","r","]">>

\* ERROR: runaway
L_err_upper == <<"E","R","R","O","R",":"," ","r","u","n","a","w","a","y">>
\* Warning: Error 5
L_err_both == <<"W","a","r","n","i","n","g",":"," ","E","r","r","o","r"," ","5">>
\* warning: exception
L_err_warning == <<"w","a","r","n","i","n","g",":"," ","e","x","c","e","p","t","i","o","n">>
\* Exception failed
L_err_exception == <<"E","x","c","e","p","t","i","o","n"," ","f","a","i","l","e","d">>
\* MCU failed
L_err_failed == <<"M","C","U"," ","f","a","i","l","e","d">>
\* ok
L_err_none == <<"o","k">>
\* Stats 1.0: rx_error=0 bed: temp=-
L_err_stats == <<"S","t","a","t","s"," ","1",".","0",":"," ","r","x","_","e","r","r","o","r","=","0"," ","b","e","d",":"," ","t","e","m","p","=","-">>

\* Stats 1.0: sysload=0.5 memavail=250000 rx_error=0
L_mix_ok == <<"S","t","a","t","s"," ","1",".","0",":"," ","s","y","s","l","o","a","d","=","0",".","5"," ","m","e","m","a","v","a","i","l","=","2","5","0","0","0","0"," ","r","x","_","e","r","r","o","r","=","0">>
\* Stats 2.0: sysload=1.5 memavail=50000 rx_error=6
L_mix_hot == <<"S","t","a","t","s"," ","2",".","0",":"," ","s","y","s","l","o","a","d","=","1",".","5"," ","m","e","m","a","v","a","i","l","=","5","0","0","0","0"," ","r","x","_","e","r","r","o","r","=","6">>

\* error
L_flood_error == <<"e","r","r","o","r">>
\* Stats 1.0: rx_error=0
L_flood_stats == <<"S","t","a","t","s"," ","1",".","0",":"," ","r","x","_","e","r","r","o","r","=","0">>

Catalogue ==
    [ mcu |-> << L_load_mcu, L_load_paren, L_load_ebb, L_config_mcu, L_moves_mcu,
                 L_moves_ebb, L_moves_more, L_config_more, L_blank >>,
      stats |-> << L_stats_ok, L_stats_hot, L_stats_extruder, L_stats_badtemp,
                   L_stats_text, L_stats_two, L_blank >>,
      config |-> << L_section_printer, L_section_extruder, L_section_padded,
                    L_section_inline, L_blank >>,
      errors |-> << L_err_upper, L_err_both, L_err_warning, L_err_exception,
                    L_err_failed, L_err_none, L_err_stats >>,
      mixed |-> << L_load_mcu, L_mix_ok, L_mix_hot, L_err_upper >>,
      flood |-> << L_flood_error, L_flood_stats >> ]

LogFiles == DOMAIN Catalogue
LineBound(f) == IF f = "flood" THEN MaxFloodLines ELSE MaxLines

----------------------------------------------------------------------------
(* The analyzer's state and parse_log.                                     *)

VARIABLES
    log_file_path,        \* the log analysed (its family)
    read,                 \* the raw lines the loop of parse_log has taken from the file
    line_number,          \* parse_log's counter
    pc,                   \* where main() is: "parse", "raised", "parsed", "performance", "done"
    stats_data,           \* self.stats_data
    mcu_configs,          \* self.mcu_configs
    errors,               \* self.errors
    config_sections,      \* self.config_sections
    timeline,             \* self.timeline
    performance_metrics,  \* self.performance_metrics
    perf_report,          \* what generate_performance_report returned, <<>> before
    health_report         \* what generate_health_report returned, <<>> before

collections == << stats_data, mcu_configs, errors, config_sections, timeline,
                  performance_metrics >>
vars == << log_file_path, read, line_number, pc, stats_data, mcu_configs, errors,
           config_sections, timeline, performance_metrics, perf_report, health_report >>

\* the analyzer's collections as one object
Self ==
    [stats_data |-> stats_data, mcu_configs |-> mcu_configs, errors |-> errors,
     config_sections |-> config_sections, timeline |-> timeline,
     performance_metrics |-> performance_metrics]

Store(self) ==
    /\ stats_data' = self.stats_data
    /\ mcu_configs' = self.mcu_configs
    /\ errors' = self.errors
    /\ config_sections' = self.config_sections
    /\ timeline' = self.timeline
    /\ performance_metrics' = self.performance_metrics

\* __init__
Init ==
    /\ log_file_path \in LogFiles
    /\ read = <<>>
    /\ line_number = 0
    /\ pc = "parse"
    /\ stats_data = <<>>
    /\ mcu_configs = EmptyDict
    /\ errors = <<>>
    /\ config_sections = EmptyDict
    /\ timeline = <<>>
    /\ performance_metrics = EmptyDict
    /\ perf_report = <<>>
    /\ health_report = <<>>

\* the four parsers called on one stripped, non-empty line, when none raises
ParseLine(self, line, n) ==
    parse_errors_warnings(
        parse_config_section(
            parse_stats_line(parse_mcu_info(self, line, n), line, n), line, n), line, n)

\* one iteration of "for line in file" on the raw line raw
ReadLine(raw) ==
    /\ pc = "parse"
    /\ line_number < LineBound(log_file_path)
    /\ line_number' = line_number + 1
    /\ read' = Append(read, raw)
    /\ UNCHANGED << log_file_path, perf_report, health_report >>
    /\ LET line == Strip(raw)
           n == line_number + 1
       IN  \/ /\ line = <<>>                  \* if not line: continue
              /\ UNCHANGED << pc, collections >>
           \/ /\ line # <<>>
              /\ StatsRaises(line)            \* ValueError leaves parse_log
              /\ Store(parse_mcu_info(Self, line, n))
              /\ pc' = "raised"
           \/ /\ line # <<>>
              /\ ~StatsRaises(line)
              /\ Store(ParseLine(Self, line, n))
              /\ UNCHANGED pc

\* the file is exhausted: parse_log returns
EndOfFile ==
    /\ pc = "parse"
    /\ pc' = "parsed"
    /\ UNCHANGED << log_file_path, read, line_number, collections, perf_report,
                    health_report >>

----------------------------------------------------------------------------
(* pandas: the DataFrame built from self.stats_data.  Only numeric columns *)
(* are aggregated; the catalogues give the aggregated keys numeric values  *)
(* only (a text value makes the column dtype object and .mean() raise).    *)

\* key in df.columns
HasColumn(data, key) == \E i \in 1..Len(data) : key \in DOMAIN data[i]

\* df[key].dropna(): the values of the snapshots that have the key, in row order
RECURSIVE Column(_, _)
Column(data, key) ==
    IF data = <<>> THEN <<>>
    ELSE (IF key \in DOMAIN Head(data) THEN << Head(data)[key].num >> ELSE <<>>)
         \o Column(Tail(data), key)

SeriesMax(values) ==
    values[CHOOSE i \in 1..Len(values) : \A j \in 1..Len(values) : ~DecLess(values[i], values[j])]
SeriesMin(values) ==
    values[CHOOSE i \in 1..Len(values) : \A j \in 1..Len(values) : ~DecLess(values[j], values[i])]
RECURSIVE SeriesSum(_)
SeriesSum(values) ==
    IF values = <<>> THEN IntDec(0) ELSE DecAdd(Head(values), SeriesSum(Tail(values)))
\* a mean is kept as the exact fraction sum / count
SeriesMean(values) == [sum |-> SeriesSum(values), count |-> Len(values)]
\* mean > threshold
MeanExceeds(mean, threshold) == DecLess(DecTimes(threshold, mean.count), mean.sum)

\* a quotient n / d, or the inf numpy gives for a division by zero
Quotient(n, d) == [kind |-> "finite", num |-> n, den |-> d]
Zero == Quotient(0, IntDec(1))
IsZero(q) == q.kind = "finite" /\ q.num = 0
\* int / numpy.float64: a zero divisor gives inf (and a RuntimeWarning), no exception
NpDivide(n, d) == IF d.m = 0 THEN [kind |-> "inf", num |-> n, den |-> d] ELSE Quotient(n, d)

\* df['timestamp'].max() - df['timestamp'].min()
TimeSpan(data) ==
    DecSub(SeriesMax(Column(data, K_timestamp)), SeriesMin(Column(data, K_timestamp)))

----------------------------------------------------------------------------
(* generate_performance_report (its summary and performance_metrics; the   *)
(* standard deviations, which need a square root, and the temperature and  *)
(* MCU tables are left out).                                               *)

\* 'total_runtime'
TotalRuntime(data) == IF Len(data) > 1 THEN TimeSpan(data) ELSE IntDec(0)

\* 'stats_frequency'
StatsFrequency(data) ==
    IF Len(data) > 1 /\ DecLess(SeriesMin(Column(data, K_timestamp)),
                                 SeriesMax(Column(data, K_timestamp)))
    THEN Quotient(Len(data), TimeSpan(data))
    ELSE Zero

\* 'trend'
Trend(values) ==
    IF DecLess(values[1], values[Len(values)]) THEN "increasing"
    ELSE IF Len(values) > 1 THEN "decreasing"
    ELSE "stable"

MetricReport(values) ==
    [mean |-> SeriesMean(values), min |-> SeriesMin(values), max |-> SeriesMax(values),
     trend |-> Trend(values)]

PerformanceReport(data) ==
    IF data = <<>>
    THEN [error |-> "No statistics data found in log"]
    ELSE [summary |-> [total_runtime |-> TotalRuntime(data),
                       total_stats_entries |-> Len(data),
                       stats_frequency |-> StatsFrequency(data)],
          performance_metrics |->
              [metric \in {k \in Range(perf_keys) : HasColumn(data, k)} |->
                  MetricReport(Column(data, metric))]]

----------------------------------------------------------------------------
(* generate_health_report (MCU information, performance summary, error     *)
(* analysis and recommendations; the communication and temperature         *)
(* sections, which only format column extremes, are left out).             *)

\* str(n) of a non-negative int
RECURSIVE IntToStr(_)
IntToStr(n) ==
    IF n < 10 THEN << Digits[n + 1] >> ELSE IntToStr(n \div 10) \o << Digits[(n % 10) + 1] >>

S_NA == <<"N","/","A">>
S_Ellipsis == <<".",".",".">>

\* s[:n]
Prefix(s, n) == SubSeq(s, 1, IF Len(s) < n THEN Len(s) ELSE n)

\* the three lines printed for one MCU
McuLines(mcu_info) ==
    [commands |-> IntToStr(mcu_info.commands),
     moves |-> IF mcu_info.moves = <<>> THEN S_NA ELSE IntToStr(mcu_info.moves[1]),
     version |-> Prefix(mcu_info.version_info, 50) \o S_Ellipsis]

HIGH_LOAD == [m |-> 1, e |-> 0]
LOW_MEMORY == [m |-> 100000, e |-> 0]
LOAD_ADVICE == [m |-> 8, e |-> 1]
MEMORY_ADVICE == [m |-> 200000, e |-> 0]
RX_ADVICE == [m |-> 5, e |-> 0]
ERROR_ADVICE == 10

\* the PERFORMANCE SUMMARY section, <<>> when there is no stats data
PerformanceSummary(data) ==
    IF data = <<>> THEN <<>>
    ELSE << [runtime |-> TimeSpan(data),
             frequency |-> NpDivide(Len(data), TimeSpan(data)),
             high_load |-> /\ HasColumn(data, K_sysload)
                           /\ DecLess(HIGH_LOAD, SeriesMax(Column(data, K_sysload))),
             low_memory |-> /\ HasColumn(data, K_memavail)
                            /\ DecLess(SeriesMin(Column(data, K_memavail)), LOW_MEMORY)] >>

\* Counter([error['type'] for error in self.errors])
ErrorTypes(errs) ==
    [ty \in {errs[i].type : i \in 1..Len(errs)} |->
        Cardinality({i \in 1..Len(errs) : errs[i].type = ty})]

\* self.errors[-5:], each with its message cut to 80 characters
RecentErrors(errs) ==
    LET first == IF Len(errs) > 5 THEN Len(errs) - 4 ELSE 1
    IN  [i \in 1..(Len(errs) - first + 1) |->
            [line_number |-> errs[first + i - 1].line_number,
             message |-> Prefix(errs[first + i - 1].message, 80) \o S_Ellipsis]]

R_LOAD == "Consider reducing print complexity or upgrading hardware"
R_MEMORY == "Monitor memory usage - consider closing unnecessary processes"
R_ERRORS == "High error count detected - review printer configuration"
R_RX == "Communication errors detected - check cables and connections"
R_HEALTHY == "System appears healthy - no immediate concerns"

\* the four rules, each as it is tested in the source
LoadRule(data) ==
    HasColumn(data, K_sysload) /\ MeanExceeds(SeriesMean(Column(data, K_sysload)), LOAD_ADVICE)
MemoryRule(data) ==
    HasColumn(data, K_memavail) /\ DecLess(SeriesMin(Column(data, K_memavail)), MEMORY_ADVICE)
ErrorRule(errs) == Len(errs) > ERROR_ADVICE
RxRule(data) ==
    /\ HasColumn(data, K_rx_error)
    /\ DecLess(RX_ADVICE, DecSub(SeriesMax(Column(data, K_rx_error)),
                                 SeriesMin(Column(data, K_rx_error))))

Recommendations(data, errs) ==
    LET recommendations ==
            IF data # <<>>
            THEN (IF LoadRule(data) THEN << R_LOAD >> ELSE <<>>)
                 \o (IF MemoryRule(data) THEN << R_MEMORY >> ELSE <<>>)
                 \o (IF ErrorRule(errs) THEN << R_ERRORS >> ELSE <<>>)
                 \o (IF RxRule(data) THEN << R_RX >> ELSE <<>>)
            ELSE <<>>
    IN  IF recommendations = <<>> THEN << R_HEALTHY >> ELSE recommendations

HealthReport(self) ==
    [mcu |-> [name \in DOMAIN self.mcu_configs |-> McuLines(self.mcu_configs[name])],
     performance |-> PerformanceSummary(self.stats_data),
     error_types |-> ErrorTypes(self.errors),
     recent_errors |-> RecentErrors(self.errors),
     recommendations |-> Recommendations(self.stats_data, self.errors)]

----------------------------------------------------------------------------
(* main(): parse_log, then (unless --report-only) the performance report,  *)
(* then the health report.                                                 *)

GeneratePerformanceReport ==
    /\ pc = "parsed"
    /\ perf_report' = << PerformanceReport(stats_data) >>
    /\ pc' = "performance"
    /\ UNCHANGED << log_file_path, read, line_number, collections, health_report >>

GenerateHealthReport ==
    /\ pc \in {"parsed", "performance"}
    /\ health_report' = << HealthReport(Self) >>
    /\ pc' = "done"
    /\ UNCHANGED << log_file_path, read, line_number, collections, perf_report >>

Next ==
    \/ \E i \in DOMAIN Catalogue[log_file_path] : ReadLine(Catalogue[log_file_path][i])
    \/ EndOfFile
    \/ GeneratePerformanceReport
    \/ GenerateHealthReport

Spec == Init /\ [][Next]_vars

----------------------------------------------------------------------------
(* What the log read so far says, for the properties below.                *)

\* the stripped lines read so far
Line(i) == Strip(read[i])
Lines == 1..Len(read)
LastOf(S) == CHOOSE i \in S : \A j \in S : j <= i
FirstOf(S) == CHOOSE i \in S : \A j \in S : i <= j

\* the lines that match "Loaded MCU 'X' ..." for the name X
LoadsOf(name) ==
    {i \in Lines : MatchMcuLoad(Line(i)) # <<>> /\ MatchMcuLoad(Line(i))[1].mcu_name = name}
LoadedNames == {MatchMcuLoad(Line(i))[1].mcu_name : i \in {j \in Lines : MatchMcuLoad(Line(j)) # <<>>}}

\* line is a "MCU 'X' config: C" or "Configured MCU 'X' (M moves)" line naming an
\* MCU that has no descriptor in mcus
UpdateOfUnknown(line, mcus) ==
    \/ MatchMcuConfig(line) # <<>> /\ MatchMcuConfig(line)[1].mcu_name \notin DOMAIN mcus
    \/ MatchMcuConfigured(line) # <<>> /\ MatchMcuConfigured(line)[1].mcu_name \notin DOMAIN mcus

----------------------------------------------------------------------------
(* C1.  An MCU name is a key of mcu_configs if and only if a line read so  *)
(* far matched "Loaded MCU 'X' ..." for it; a config or configured line    *)
(* read while its MCU has no descriptor leaves mcu_configs unchanged.      *)

C1_KeysAreLoadedNames == DOMAIN mcu_configs = LoadedNames

C1_UpdateOfUnknownDropped ==
    (Len(read') = Len(read) + 1 /\ UpdateOfUnknown(Strip(read'[Len(read')]), mcu_configs))
        => mcu_configs' = mcu_configs

\* C1: at every moment the keys of mcu_configs are the names loaded so far, and
\* every step that reads an update of an unknown MCU leaves mcu_configs as it was
C1_McuKeys == [](C1_KeysAreLoadedNames) /\ [][C1_UpdateOfUnknownDropped]_vars

\* C1 witness, a known MCU next to a dropped update: some line updated an MCU that no earlier
\* line had loaded, and a descriptor exists
C1_Witness ==
    /\ mcu_configs # EmptyDict
    /\ \E i \in Lines :
          \/ /\ MatchMcuConfig(Line(i)) # <<>>
             /\ \A j \in LoadsOf(MatchMcuConfig(Line(i))[1].mcu_name) : j > i
          \/ /\ MatchMcuConfigured(Line(i)) # <<>>
             /\ \A j \in LoadsOf(MatchMcuConfigured(Line(i))[1].mcu_name) : j > i

----------------------------------------------------------------------------
(* C2.  For every well-formed line "Loaded MCU 'X' N commands (V)", V any  *)
(* text (parentheses included), the last such line naming X leaves         *)
(* mcu_configs[X] with command count N and version string exactly V.       *)

\* the fields of a line that is exactly Loaded MCU 'X' N commands (V): V is all
\* that stands between the opening parenthesis and the closing one that ends the line
WellFormedLoad(line) ==
    LET n1 == Len(P_LoadedMCU) + 1
        n2 == RunEnd(line, n1, WordChar)
        c1 == n2 + Len(P_QuoteSp)
        c2 == RunEnd(line, c1, DigitChar)
        v1 == c2 + Len(P_Commands)
    IN  IF /\ HasLit(line, 1, P_LoadedMCU)
           /\ n2 > n1
           /\ HasLit(line, n2, P_QuoteSp)
           /\ c2 > c1
           /\ HasLit(line, c2, P_Commands)
           /\ Len(line) >= v1
           /\ line[Len(line)] = ")"
        THEN << [X |-> Slice(line, n1, n2), N |-> DigitsToInt(Slice(line, c1, c2)),
                 V |-> Slice(line, v1, Len(line))] >>
        ELSE <<>>

\* C2: the last well-formed load line of X read so far is what mcu_configs[X]
\* holds: command count N and version string V, parentheses in V included
C2_LoadStoresFields ==
    \A i \in Lines :
        LET w == WellFormedLoad(Line(i))
        IN  (w # <<>> /\ i = LastOf(LoadsOf(w[1].X)))
                => /\ w[1].X \in DOMAIN mcu_configs
                   /\ mcu_configs[w[1].X].commands = w[1].N
                   /\ mcu_configs[w[1].X].version_info = w[1].V

----------------------------------------------------------------------------
(* C3.  stats_data holds exactly one snapshot per line read that matches   *)
(* "Stats T: ...", in the order of those lines, and the i-th snapshot      *)
(* carries the timestamp T and the 1-based line number of the i-th such    *)
(* line (blank lines count in the numbering).                              *)

StatsLines == {i \in Lines : MatchStats(Line(i)) # <<>>}
\* the k-th smallest element of the set S of numbers
NthOf(S, k) == CHOOSE i \in S : Cardinality({j \in S : j <= i}) = k

\* C3: one snapshot per stats line read, in line order, the k-th with the
\* timestamp and the line number of the k-th stats line
C3_OneSnapshotPerStatsLine ==
    /\ Len(stats_data) = Cardinality(StatsLines)
    /\ \A k \in 1..Len(stats_data) :
          k <= Cardinality(StatsLines) =>
              /\ stats_data[k][K_timestamp]
                     = FloatVal(Float(MatchStats(Line(NthOf(StatsLines, k)))[1].timestamp))
              /\ stats_data[k][K_line_number] = IntVal(NthOf(StatsLines, k))

----------------------------------------------------------------------------
(* C4.  A stats line whose remainder holds a segment                       *)
(* "S: temp=a target=b pwm=c" gives a snapshot with S_temp = a,            *)
(* S_target = b and S_pwm = c.                                             *)

Q_temp == <<":"," ","t","e","m","p","=">>
Q_target == <<" ","t","a","r","g","e","t","=">>
Q_pwm == <<" ","p","w","m","=">>

\* the segment S: temp=a target=b pwm=c that starts at position s of c (S a whole
\* word, a, b and c numbers), or <<>>
SegmentAt(c, s) ==
    LET s2 == RunEnd(c, s, WordChar)
        a1 == s2 + Len(Q_temp)
        a2 == RunEnd(c, a1, NumChar)
        b1 == a2 + Len(Q_target)
        b2 == RunEnd(c, b1, NumChar)
        c1 == b2 + Len(Q_pwm)
        c2 == RunEnd(c, c1, NumChar)
    IN  IF /\ s2 > s
           /\ (s = 1 \/ c[s - 1] \notin WordChar)
           /\ HasLit(c, s2, Q_temp) /\ a2 > a1
           /\ HasLit(c, a2, Q_target) /\ b2 > b1
           /\ HasLit(c, b2, Q_pwm) /\ c2 > c1
           /\ FloatOk(Slice(c, a1, a2)) /\ FloatOk(Slice(c, b1, b2)) /\ FloatOk(Slice(c, c1, c2))
        THEN << [S |-> Slice(c, s, s2), a |-> Float(Slice(c, a1, a2)),
                 b |-> Float(Slice(c, b1, b2)), c |-> Float(Slice(c, c1, c2))] >>
        ELSE <<>>

\* the segments of the stats line at index i of the log, {} for another line
SegmentsOf(i) ==
    IF MatchStats(Line(i)) = <<>> THEN {}
    ELSE LET c == MatchStats(Line(i))[1].stats_content
         IN  {SegmentAt(c, s)[1] : s \in {p \in 1..Len(c) : SegmentAt(c, p) # <<>>}}

\* C4: the snapshot of the line read last holds S_temp, S_target and S_pwm for
\* each segment S: temp=a target=b pwm=c of that line
C4_SensorTriple ==
    (pc # "raised" /\ read # <<>> /\ stats_data # <<>>) =>
        \A g \in SegmentsOf(Len(read)) :
            LET d == stats_data[Len(stats_data)]
            IN  /\ (g.S \o X_temp) \in DOMAIN d /\ d[g.S \o X_temp] = FloatVal(g.a)
                /\ (g.S \o X_target) \in DOMAIN d /\ d[g.S \o X_target] = FloatVal(g.b)
                /\ (g.S \o X_pwm) \in DOMAIN d /\ d[g.S \o X_pwm] = FloatVal(g.c)

----------------------------------------------------------------------------
(* C5.  With a single snapshot, or with all snapshots at one timestamp,    *)
(* the runtime and the stats frequency are exactly 0, in the summary of    *)
(* generate_performance_report and in the lines of generate_health_report. *)

NoRuntime ==
    /\ stats_data # <<>>
    /\ \/ Len(stats_data) < 2
       \/ \A i, j \in 1..Len(stats_data) : stats_data[i][K_timestamp] = stats_data[j][K_timestamp]

\* C5: without runtime both reports give runtime 0 and stats frequency 0
C5_ZeroRuntimeZeroFrequency ==
    /\ (perf_report # <<>> /\ NoRuntime) =>
            /\ perf_report[1].summary.total_runtime = IntDec(0)
            /\ IsZero(perf_report[1].summary.stats_frequency)
    /\ (health_report # <<>> /\ NoRuntime) =>
            /\ health_report[1].performance[1].runtime = IntDec(0)
            /\ IsZero(health_report[1].performance[1].frequency)

----------------------------------------------------------------------------
(* C6.  Each non-empty line adds exactly one entry to errors if it holds   *)
(* (in any case) one of error, warning, exception, failed, tagged with the *)
(* first of these four that it holds, and none otherwise; entries are in   *)
(* line order and never merged.                                            *)

W_error == <<"e","r","r","o","r">>
W_warning == <<"w","a","r","n","i","n","g">>
W_exception == <<"e","x","c","e","p","t","i","o","n">>
W_failed == <<"f","a","i","l","e","d">>
Keywords == << W_error, W_warning, W_exception, W_failed >>

Contains(text, word) == \E i \in 1..Len(text) : HasLit(text, i, word)
\* the keywords (by rank) a line holds
KeywordsIn(line) == {k \in DOMAIN Keywords : Contains(Lower(line), Keywords[k])}

\* the entries the first n lines of the log call for
RECURSIVE ExpectedErrors(_)
ExpectedErrors(n) ==
    IF n = 0 THEN <<>>
    ELSE ExpectedErrors(n - 1)
         \o (IF KeywordsIn(Line(n)) = {} THEN <<>>
             ELSE << [line_number |-> n,
                      type |-> Keywords[FirstOf(KeywordsIn(Line(n)))],
                      message |-> Line(n)] >>)

\* C6: errors is exactly the list of entries the lines read so far call for
C6_OneEntryPerKeywordLine == errors = ExpectedErrors(Len(read))

----------------------------------------------------------------------------
(* C7.  No exception leaves the parsing of a line: a captured value that   *)
(* float() rejects is kept as text under its key, whichever of the four    *)
(* scans captured it, and the snapshot is appended.                        *)

\* every capture of ms that float() rejects is stored as text under key + suffix
KeptAsText(d, ms, suffix) ==
    \A i \in 1..Len(ms) :
        (~FloatOk(ms[i].value) /\ \A j \in (i + 1)..Len(ms) : ms[j].key # ms[i].key)
            => /\ (ms[i].key \o suffix) \in DOMAIN d
               /\ d[ms[i].key \o suffix] = StrVal(ms[i].value)

\* C7: parsing never raises, and the snapshot of the stats line read last is
\* there with every value float() rejects kept as text
C7_NoExceptionTextKept ==
    /\ pc # "raised"
    /\ (read # <<>> /\ MatchStats(Line(Len(read))) # <<>>) =>
          /\ stats_data # <<>>
          /\ LET c == MatchStats(Line(Len(read)))[1].stats_content
                 d == stats_data[Len(stats_data)]
             IN  /\ KeptAsText(d, FindAllSensor(c, 1, P_temp), X_temp)
                 /\ KeptAsText(d, FindAllSensor(c, 1, P_target), X_target)
                 /\ KeptAsText(d, FindAllPwm(c, 1), X_pwm)

----------------------------------------------------------------------------
(* C8.  As claimed: config_sections keeps, for a section declared on       *)
(* several lines, the line number of its first declaration.  What the code *)
(* keeps is the line number of the last one: each "[name]" line read       *)
(* replaces the entry of name, and config_sections holds exactly the       *)
(* sections declared so far.                                               *)

\* the name of a line that is a section header and nothing else, or <<>>
SectionName(line) ==
    IF /\ Len(line) >= 3
       /\ line[1] = "["
       /\ line[Len(line)] = "]"
       /\ \A k \in 2..(Len(line) - 1) : line[k] # "]"
    THEN << SubSeq(line, 2, Len(line) - 1) >>
    ELSE <<>>
HeadersOf(name) == {i \in Lines : SectionName(Line(i)) = << name >>}
DeclaredSections == {SectionName(Line(i))[1] : i \in {j \in Lines : SectionName(Line(j)) # <<>>}}

----------------------------------------------------------------------------
(* C9.  The trend of a reported metric is increasing if its last value     *)
(* exceeds its first, decreasing if it is less, and stable if the two are  *)
(* equal or there are fewer than two values.                               *)

ExpectedTrend(values) ==
    IF Len(values) < 2 THEN "stable"
    ELSE IF DecLess(values[1], values[Len(values)]) THEN "increasing"
    ELSE IF DecLess(values[Len(values)], values[1]) THEN "decreasing"
    ELSE "stable"

\* C9: every trend of the performance report is the one the first and last
\* values of its metric call for (equal first and last: stable)
C9_TrendByFirstAndLast ==
    (perf_report # <<>> /\ stats_data # <<>>) =>
        \A metric \in DOMAIN perf_report[1].performance_metrics :
            perf_report[1].performance_metrics[metric].trend
                = ExpectedTrend(Column(stats_data, metric))

----------------------------------------------------------------------------
(* C10.  The four recommendation rules are applied whatever data is        *)
(* present: more than 10 errors give the 'review printer configuration'    *)
(* line even without any snapshot, and the 'appears healthy' line is       *)
(* given if and only if no rule applies.                                   *)

SomeRuleApplies ==
    \/ LoadRule(stats_data)
    \/ MemoryRule(stats_data)
    \/ Len(errors) > 10
    \/ RxRule(stats_data)

\* C10: in the health report, more than 10 errors give the configuration advice
\* with or without snapshots, and the healthy line is there iff no rule applies
C10_RulesIndependent ==
    health_report # <<>> =>
        /\ Len(errors) > 10 => R_ERRORS \in Range(health_report[1].recommendations)
        /\ R_HEALTHY \in Range(health_report[1].recommendations) <=> ~SomeRuleApplies

----------------------------------------------------------------------------
(* C11.  In a stats line with several sensor segments "S1: ... S2: ...",   *)
(* S_pwm is stored exactly for the sensors S whose own segment holds a     *)
(* pwm key, with the value of that key.                                    *)

\* a sensor header "S: " starts at position s of c (S a whole word)
SensorAt(c, s) ==
    /\ s \in 1..Len(c)
    /\ c[s] \in WordChar
    /\ (s = 1 \/ c[s - 1] \notin WordChar)
    /\ HasLit(c, RunEnd(c, s, WordChar), P_ColonSp)

SensorStarts(c) == {s \in 1..Len(c) : SensorAt(c, s)}
SensorName(c, s) == Slice(c, s, RunEnd(c, s, WordChar))

\* one past the segment of the sensor that starts at s: the start of the next
\* sensor header, or the end of the text
SegmentEnd(c, s) ==
    LET later == {t \in SensorStarts(c) : t > s}
    IN  IF later = {} THEN Len(c) + 1 ELSE FirstOf(later)

\* where the key pwm, with a value, stands inside the segment of the sensor at s
OwnPwm(c, s) ==
    {p \in (RunEnd(c, s, WordChar) + Len(P_ColonSp))..(SegmentEnd(c, s) - 1) :
        /\ HasLit(c, p, P_pwm)
        /\ c[p - 1] \notin WordChar
        /\ RunEnd(c, p + Len(P_pwm), NumChar) > p + Len(P_pwm)}

PwmValueAt(c, p) == Slice(c, p + Len(P_pwm), RunEnd(c, p + Len(P_pwm), NumChar))

\* C11: in the snapshot of the stats line read last, a sensor has an S_pwm entry
\* if and only if its own segment holds a pwm key, and the entry is that key's value
C11_PwmOfOwnSegment ==
    (pc # "raised" /\ read # <<>> /\ MatchStats(Line(Len(read))) # <<>> /\ stats_data # <<>>) =>
        LET c == MatchStats(Line(Len(read)))[1].stats_content
            d == stats_data[Len(stats_data)]
        IN  \A s \in SensorStarts(c) :
                LET own == OwnPwm(c, s)
                    key == SensorName(c, s) \o X_pwm
                IN  /\ own = {} => key \notin DOMAIN d
                    /\ own # {} => /\ key \in DOMAIN d
                                   /\ d[key] = FloatVal(Float(PwmValueAt(c, FirstOf(own))))

----------------------------------------------------------------------------
(* C12.  A "Loaded MCU 'X'" line replaces the whole descriptor of X: the   *)
(* descriptor has a move count (a raw config string) exactly when a        *)
(* "Configured MCU 'X' (M moves)" line (a "MCU 'X' config: C" line) was    *)
(* read after the most recent load of X, the value being that of the last  *)
(* such line; the health report prints N/A for a missing move count.       *)

\* the "Configured MCU 'X' (M moves)" lines of name read after the last load of name
MovesSinceLoad(name) ==
    {i \in Lines : /\ i > LastOf(LoadsOf(name))
                   /\ MatchMcuConfigured(Line(i)) # <<>>
                   /\ MatchMcuConfigured(Line(i))[1].mcu_name = name}

\* the "MCU 'X' config: C" lines of name read after the last load of name
ConfigSinceLoad(name) ==
    {i \in Lines : /\ i > LastOf(LoadsOf(name))
                   /\ MatchMcuConfig(Line(i)) # <<>>
                   /\ MatchMcuConfig(Line(i))[1].mcu_name = name}

ExpectedMoves(name) ==
    IF MovesSinceLoad(name) = {} THEN <<>>
    ELSE << DigitsToInt(MatchMcuConfigured(Line(LastOf(MovesSinceLoad(name))))[1].moves) >>

ExpectedConfig(name) ==
    IF ConfigSinceLoad(name) = {} THEN <<>>
    ELSE << MatchMcuConfig(Line(LastOf(ConfigSinceLoad(name))))[1].config_data >>

\* C12: every descriptor holds the move count and the config of the last such
\* lines read after the most recent load of its MCU, none when there is no such
\* line, and the health report prints that move count, N/A when there is none
C12_ReloadReplacesDescriptor ==
    /\ \A name \in DOMAIN mcu_configs :
          /\ mcu_configs[name].moves = ExpectedMoves(name)
          /\ mcu_configs[name].config = ExpectedConfig(name)
    /\ health_report # <<>> =>
          \A name \in DOMAIN mcu_configs :
              health_report[1].mcu[name].moves
                  = IF ExpectedMoves(name) = <<>> THEN S_NA
                    ELSE IntToStr(ExpectedMoves(name)[1])

\* C12 witness: an MCU was loaded, configured with a move count and then loaded again, and
\* the health report of that log prints N/A for its moves
C12_Witness ==
    /\ health_report # <<>>
    /\ \E name \in DOMAIN mcu_configs :
          /\ \E i \in Lines : /\ i < LastOf(LoadsOf(name))
                              /\ i > FirstOf(LoadsOf(name))
                              /\ MatchMcuConfigured(Line(i)) # <<>>
                              /\ MatchMcuConfigured(Line(i))[1].mcu_name = name
          /\ MovesSinceLoad(name) = {}
          /\ health_report[1].mcu[name].moves = S_NA

====
